---- MODULE Spec2Model ----
(***************************************************************************)
(* The classification pass of BCC_defect_classification.py (modify).       *)
(*                                                                         *)
(* The three descriptor arrays and the neighbour finder are inputs of the  *)
(* pass (they come from OVITO modifiers); the pass itself is the loop of   *)
(* Step 2 over the atoms in index order, followed by the colour map of     *)
(* Step 3.                                                                 *)
(*                                                                         *)
(* Centrosymmetry is a float in the code.  It is kept here in tenths       *)
(* (0.5 -> 5, 5.0 -> 50, 9.0 -> 90), so the thresholds 1, 4, 4.5 and 8 of  *)
(* the code read 10, 40, 45 and 80.                                        *)
(***************************************************************************)
EXTENDS Integers, FiniteSets, Sequences, TLC

VARIABLES atom_coord, atom_cna, atom_csp, found, defect_property, color_property, i, pc

vars == <<atom_coord, atom_cna, atom_csp, found, defect_property, color_property, i, pc>>

(***************************************************************************)
(* Defect types (lines 48-54) and the CNA tag of a BCC atom.               *)
(***************************************************************************)
blk == 0
srf == 1
vcn == 2
dsl == 3
twn == 4
plf == 5
els == 6

BCC == 3

Labels == {blk, srf, vcn, dsl, twn, plf, els}

(* len(atom_coord): the atoms are 0 .. NumAtoms-1 *)
NumAtoms == Cardinality(DOMAIN atom_coord)

Atoms == DOMAIN atom_coord

(***************************************************************************)
(* get_neighbors: what the neighbour finder yields for the atom, without   *)
(* the perfect BCC atoms (CNA tag 3 and coordination 14).                  *)
(***************************************************************************)
get_neighbors(index) ==
    {n \in found[index] : atom_cna[n] # BCC \/ atom_coord[n] # 14}

(***************************************************************************)
(* The five predicates.  Each one in the code writes its label into        *)
(* defect_property[i] when it returns True; here each is the Boolean it    *)
(* returns, and Classify below gives the label written.  is_surface is the *)
(* only one that reads the labels of other atoms: dp is defect_property at *)
(* the moment of the call.                                                 *)
(***************************************************************************)
SurfaceQualifying(n, dp) ==
    dp[n] = srf \/ (atom_cna[n] # BCC /\ atom_coord[n] <= 11)

(* is_surface with the direct rule one coordination short *)
is_surface_Below11(a, dp) ==
    /\ atom_cna[a] # BCC
    /\ \/ atom_coord[a] < 11
       \/ Cardinality({n \in get_neighbors(a) : SurfaceQualifying(n, dp)}) >= 4

is_surface(a, dp) ==
    /\ atom_cna[a] # BCC
    /\ \/ atom_coord[a] <= 11
       \/ LET neighbors == get_neighbors(a)
              count == Cardinality({n \in neighbors : SurfaceQualifying(n, dp)})
          IN  count >= 4

(* is_dislo with the first comparison not strict *)
is_dislo_NotStrict(a) ==
    LET coord == atom_coord[a]
        neighbors == get_neighbors(a)
        nr_14 == Cardinality({n \in neighbors : atom_coord[n] = 14})
    IN  IF coord >= 12 /\ coord # 14
        THEN Cardinality(neighbors) - nr_14 >= nr_14
        ELSE IF coord = 14
        THEN /\ Cardinality({n \in neighbors : atom_coord[n] >= 12 /\ atom_coord[n] # 14}) >= 4
             /\ nr_14 <= 6
        ELSE FALSE

is_dislo(a) ==
    LET coord == atom_coord[a]
        neighbors == get_neighbors(a)
    IN  IF coord >= 12 /\ coord # 14
        THEN LET nr_14 == Cardinality({n \in neighbors : atom_coord[n] = 14})
                 nr_non14 == Cardinality(neighbors) - nr_14
             IN  nr_non14 > nr_14
        ELSE IF coord = 14
        THEN LET nr_non14 == Cardinality({n \in neighbors :
                                 atom_coord[n] >= 12 /\ atom_coord[n] # 14})
                 nr_14 == Cardinality({n \in neighbors : atom_coord[n] = 14})
             IN  nr_non14 >= 4 /\ nr_14 <= 6
        ELSE FALSE

is_vac(a) ==
    LET coord == atom_coord[a]
        csp == atom_csp[a]
        neighbors == get_neighbors(a)
        nr_13_4 == Cardinality({n \in neighbors : atom_coord[n] = 13 /\ atom_csp[n] > 40})
        nr_12_4 == Cardinality({n \in neighbors : atom_coord[n] = 12 /\ atom_csp[n] > 40})
    IN  IF coord = 13 /\ csp < 10
        THEN nr_13_4 = 4 \/ (nr_13_4 = 2 /\ nr_12_4 = 2)
        ELSE IF coord = 13 /\ csp > 40
        THEN nr_13_4 >= 4
        ELSE IF coord = 12 /\ csp > 40
        THEN nr_12_4 = 1 /\ nr_13_4 = 4
        ELSE FALSE

is_twin(a) ==
    LET coord == atom_coord[a]
        csp == atom_csp[a]
        neighbors == get_neighbors(a)
        nr_13 == Cardinality({n \in neighbors : atom_coord[n] = 13})
        nr_14 == Cardinality({n \in neighbors : atom_coord[n] = 14})
    IN  IF coord = 13 /\ csp > 45
        THEN nr_13 = 5 /\ nr_14 = 2
        ELSE IF coord = 14 /\ csp > 80
        THEN TRUE
        ELSE IF coord = 14
        THEN nr_13 >= 4 /\ nr_14 >= 2
        ELSE FALSE

is_planarfault(a) ==
    LET coord == atom_coord[a]
        neighbors == get_neighbors(a)
        nr_12 == Cardinality({n \in neighbors : atom_coord[n] = 12})
        nr_13 == Cardinality({n \in neighbors : atom_coord[n] = 13})
    IN  /\ atom_cna[a] # BCC
        /\ IF coord = 12
           THEN (nr_12 >= 3 /\ nr_12 <= 6) /\ (nr_13 >= 7 /\ nr_13 <= 9)
           ELSE IF coord = 13
           THEN nr_12 + nr_13 = 9 /\ nr_13 >= 7
           ELSE FALSE

(* the perfect-lattice test taking centrosymmetry into account *)
PerfectBCC_LowCsp(a) == atom_cna[a] = BCC /\ atom_coord[a] = 14 /\ atom_csp[a] <= 80

(* the test of line 191 *)
PerfectBCC(a) == atom_cna[a] = BCC /\ atom_coord[a] = 14

(***************************************************************************)
(* The body of the loop of Step 2 for atom a: the value defect_property[a] *)
(* holds after it, dp being defect_property before it.                     *)
(***************************************************************************)
(* the loop body with the high-centrosymmetry Twin rule ahead of line 191 *)
Classify_TwinFirst(a, dp) ==
    IF atom_coord[a] = 14 /\ atom_csp[a] > 80 THEN twn
    ELSE IF PerfectBCC(a) THEN blk
    ELSE IF is_surface(a, dp) THEN srf
    ELSE IF is_dislo(a) THEN dsl
    ELSE IF is_vac(a) THEN vcn
    ELSE IF is_twin(a) THEN twn
    ELSE IF is_planarfault(a) THEN plf
    ELSE els

(* the loop body with is_vac called before is_dislo *)
Classify_VacBeforeDislo(a, dp) ==
    IF PerfectBCC(a) THEN blk
    ELSE IF is_surface(a, dp) THEN srf
    ELSE IF is_vac(a) THEN vcn
    ELSE IF is_dislo(a) THEN dsl
    ELSE IF is_twin(a) THEN twn
    ELSE IF is_planarfault(a) THEN plf
    ELSE els

(* the loop body with is_twin called before is_dislo *)
Classify_TwinBeforeDislo(a, dp) ==
    IF PerfectBCC(a) THEN blk
    ELSE IF is_surface(a, dp) THEN srf
    ELSE IF is_twin(a) THEN twn
    ELSE IF is_dislo(a) THEN dsl
    ELSE IF is_vac(a) THEN vcn
    ELSE IF is_planarfault(a) THEN plf
    ELSE els

(* the loop body without the else branch of line 197 *)
Classify_NoFallback(a, dp) ==
    IF PerfectBCC(a) THEN blk
    ELSE IF is_surface(a, dp) THEN srf
    ELSE IF is_dislo(a) THEN dsl
    ELSE IF is_vac(a) THEN vcn
    ELSE IF is_twin(a) THEN twn
    ELSE IF is_planarfault(a) THEN plf
    ELSE dp[a]

Classify(a, dp) ==
    IF PerfectBCC(a) THEN blk
    ELSE IF is_surface(a, dp) THEN srf
    ELSE IF is_dislo(a) THEN dsl
    ELSE IF is_vac(a) THEN vcn
    ELSE IF is_twin(a) THEN twn
    ELSE IF is_planarfault(a) THEN plf
    ELSE els

(* color_map of Step 3, in tenths *)
color_map(defect) ==
    CASE defect = blk -> <<8, 8, 8>>
      [] defect = srf -> <<0, 0, 10>>
      [] defect = vcn -> <<10, 0, 0>>
      [] defect = dsl -> <<0, 10, 0>>
      [] defect = twn -> <<10, 10, 0>>
      [] defect = plf -> <<10, 5, 0>>
      [] defect = els -> <<5, 5, 5>>

(***************************************************************************)
(* Input snapshots.  A snapshot is built from three groups of atoms: the   *)
(* atoms of a group are consecutive indices, share their descriptors and   *)
(* have the same neighbours, namely all atoms of the groups adjacent to    *)
(* theirs, their own group included when it is linked to itself (the       *)
(* neighbour relation is symmetric and no atom is its own neighbour, as    *)
(* for a cutoff search).  A group holds 1 .. MaxGroup atoms, and one more  *)
(* when it is linked to itself, so that an atom has up to MaxGroup         *)
(* neighbours in any group.                                                *)
(***************************************************************************)
MaxGroup == 5

Groups == 1 .. 3

LastGroup == CHOOSE g \in Groups : \A h \in Groups : h <= g

(* links between two groups, and with them the link of the first group to *)
(* itself (its atoms are then neighbours of each other)                    *)
GroupPairs == {p \in SUBSET Groups : Cardinality(p) = 2}

GroupLinks == GroupPairs \cup {{1}}

Kind(cna, coord, csp) == [cna |-> cna, coord |-> coord, csp |-> csp]

(***************************************************************************)
(* The descriptors the groups draw from.  CNA tag 0 is "Other".            *)
(*   DefectKinds : a surface atom, low- and high-centrosymmetry atoms of   *)
(*                 coordination 13, a non-BCC atom of coordination 14 and  *)
(*                 a perfect BCC atom;                                     *)
(*   LatticeKinds: a surface atom, a non-BCC atom of coordination 12, BCC  *)
(*                 atoms of coordination 11 and 14 and a non-BCC atom of   *)
(*                 coordination 14, the last two with centrosymmetry 9.0;  *)
(*   TwinKinds   : a surface atom and non-BCC atoms of coordination 13 and *)
(*                 14 (centrosymmetry 5.0 and 9.0);                        *)
(*   RawKinds    : descriptors as they arrive, a negative coordination and *)
(*                 a structure tag outside 0 .. 4 among them.              *)
(***************************************************************************)
DefectKinds ==
    {Kind(0, 11, 5), Kind(0, 13, 5), Kind(0, 13, 50), Kind(0, 14, 90), Kind(BCC, 14, 5)}

LatticeKinds ==
    {Kind(0, 11, 5), Kind(0, 12, 50), Kind(BCC, 11, 5), Kind(BCC, 14, 90), Kind(0, 14, 90)}

TwinKinds ==
    {Kind(0, 11, 5), Kind(0, 13, 50), Kind(0, 14, 90)}

RawKinds ==
    {Kind(0, -1, 5), Kind(BCC, -1, 5), Kind(7, 13, 50), Kind(0, 11, 5), Kind(BCC, 14, 5)}

RECURSIVE FirstOf(_, _)
FirstOf(size, g) == IF g = 1 THEN 0 ELSE FirstOf(size, g - 1) + size[g - 1]

SnapshotOf(size, kind, adj) ==
    LET first == [g \in Groups |-> FirstOf(size, g)]
        n == first[LastGroup] + size[LastGroup]
        members == [g \in Groups |-> first[g] .. first[g] + size[g] - 1]
        grp == [a \in 0 .. n - 1 |-> CHOOSE g \in Groups : a \in members[g]]
        near == [g \in Groups |-> UNION {members[h] : h \in {h \in Groups : {g, h} \in adj}}]
    IN  [coord |-> [a \in 0 .. n - 1 |-> kind[grp[a]].coord],
         cna   |-> [a \in 0 .. n - 1 |-> kind[grp[a]].cna],
         csp   |-> [a \in 0 .. n - 1 |-> kind[grp[a]].csp],
         found |-> [a \in 0 .. n - 1 |-> near[grp[a]] \ {a}]]

InitWith(snap) ==
    /\ atom_coord = snap.coord
    /\ atom_cna = snap.cna
    /\ atom_csp = snap.csp
    /\ found = snap.found
    /\ defect_property = [a \in DOMAIN snap.coord |-> blk]
    /\ color_property = <<>>
    /\ i = 0
    /\ pc = "classify"

(* the iteration for atom i, a Surface label spreading to its neighbours *)
Identify_SpreadsSurface ==
    /\ pc = "classify"
    /\ i < NumAtoms
    /\ defect_property' =
          [b \in Atoms |->
              IF b = i \/ (b \in found[i] /\ Classify(i, defect_property) = srf)
              THEN Classify(i, defect_property)
              ELSE defect_property[b]]
    /\ i' = i + 1
    /\ UNCHANGED <<atom_coord, atom_cna, atom_csp, found, color_property, pc>>

(***************************************************************************)
(* Step 2, one iteration of the loop for atom i.                           *)
(***************************************************************************)
Identify ==
    /\ pc = "classify"
    /\ i < NumAtoms
    /\ defect_property' = [defect_property EXCEPT ![i] = Classify(i, defect_property)]
    /\ i' = i + 1
    /\ UNCHANGED <<atom_coord, atom_cna, atom_csp, found, color_property, pc>>

(* Step 3, once the loop is over. *)
AssignColors ==
    /\ pc = "classify"
    /\ i = NumAtoms
    /\ color_property' = [a \in Atoms |-> color_map(defect_property[a])]
    /\ pc' = "done"
    /\ UNCHANGED <<atom_coord, atom_cna, atom_csp, found, defect_property, i>>

Next == Identify \/ AssignColors

InitFrom(kinds, links) ==
    \E kind \in [Groups -> kinds], adj \in SUBSET links, size \in [Groups -> 1 .. MaxGroup + 1] :
        /\ \A g \in Groups : size[g] <= MaxGroup \/ {g} \in adj
        /\ InitWith(SnapshotOf(size, kind, adj))

Init == InitFrom(DefectKinds, GroupPairs)

InitLattice == InitFrom(LatticeKinds, GroupPairs)

InitTwin == InitFrom(TwinKinds, GroupLinks)

InitRaw == InitFrom(RawKinds, GroupPairs)

Spec == Init /\ [][Next]_vars

SpecLattice == InitLattice /\ [][Next]_vars

SpecTwin == InitTwin /\ [][Next]_vars

SpecRaw == InitRaw /\ [][Next]_vars

(* The loop and the colour map are straight-line code: a step that can be  *)
(* taken is taken.                                                          *)
FairSpec == Spec /\ WF_vars(Next)

(***************************************************************************)
(* Vocabulary of the properties.                                           *)
(*                                                                         *)
(* Evaluated(a): the loop has passed atom a.  LabelsSeenBy(a): the label   *)
(* array as it was when atom a was evaluated, that is the labels of the    *)
(* atoms before a and Bulk from a on.  NeighborSet(a): the neighbours of a *)
(* without those of signature (BCC-like, 14).  SurfaceRule(a): the Surface *)
(* predicate as the specification words it.                                *)
(***************************************************************************)
Evaluated(a) == a \in Atoms /\ a < i

LabelsSeenBy(a) == [b \in Atoms |-> IF b < a THEN defect_property[b] ELSE blk]

NeighborSet(a) == {n \in found[a] : <<atom_cna[n], atom_coord[n]>> # <<BCC, 14>>}

NrSurfaceQualifying(a) ==
    Cardinality({n \in NeighborSet(a) :
        LabelsSeenBy(a)[n] = srf \/ (atom_cna[n] # BCC /\ atom_coord[n] <= 11)})

SurfaceRule(a) ==
    atom_cna[a] # BCC /\ (atom_coord[a] <= 11 \/ NrSurfaceQualifying(a) >= 4)

NrCoord(a, c) == Cardinality({n \in NeighborSet(a) : atom_coord[n] = c})

(* neighbours of coordination c and centrosymmetry > 4 *)
NrCoordHighCsp(a, c) ==
    Cardinality({n \in NeighborSet(a) : atom_coord[n] = c /\ atom_csp[n] > 40})

(* The Dislocation, Vacancy, Twin and Planar fault predicates as the       *)
(* specification words them, over the filtered neighbour set.              *)
DislocationRule(a) ==
    \/ /\ atom_coord[a] >= 12 /\ atom_coord[a] # 14
       /\ NrCoord(a, 14) < Cardinality({n \in NeighborSet(a) : atom_coord[n] # 14})
    \/ /\ atom_coord[a] = 14
       /\ Cardinality({n \in NeighborSet(a) : atom_coord[n] >= 12 /\ atom_coord[n] # 14}) >= 4
       /\ NrCoord(a, 14) <= 6

VacancyRule(a) ==
    \/ /\ atom_coord[a] = 13 /\ atom_csp[a] < 10
       /\ \/ NrCoordHighCsp(a, 13) = 4
          \/ NrCoordHighCsp(a, 13) = 2 /\ NrCoordHighCsp(a, 12) = 2
    \/ /\ atom_coord[a] = 13 /\ atom_csp[a] > 40
       /\ NrCoordHighCsp(a, 13) >= 4
    \/ /\ atom_coord[a] = 12 /\ atom_csp[a] > 40
       /\ NrCoordHighCsp(a, 12) = 1 /\ NrCoordHighCsp(a, 13) = 4

TwinRule(a) ==
    \/ /\ atom_coord[a] = 13 /\ atom_csp[a] > 45
       /\ NrCoord(a, 13) = 5 /\ NrCoord(a, 14) = 2
    \/ atom_coord[a] = 14 /\ atom_csp[a] > 80
    \/ /\ atom_coord[a] = 14
       /\ NrCoord(a, 13) >= 4 /\ NrCoord(a, 14) >= 2

PlanarFaultRule(a) ==
    /\ atom_cna[a] # BCC
    /\ \/ /\ atom_coord[a] = 12
          /\ NrCoord(a, 12) \in 3 .. 6 /\ NrCoord(a, 13) \in 7 .. 9
       \/ /\ atom_coord[a] = 13
          /\ NrCoord(a, 12) + NrCoord(a, 13) = 9 /\ NrCoord(a, 13) >= 7

PerfectLattice(a) == atom_cna[a] = BCC /\ atom_coord[a] = 14

(***************************************************************************)
(* C1.  Every atom whose structure type is BCC-like (CNA tag 3) and whose  *)
(* coordination is 14 has label Bulk, whatever its centrosymmetry, its     *)
(* neighbours and their descriptors and labels: before, during and after   *)
(* the pass.                                                               *)
(***************************************************************************)
C1_PerfectIsBulk ==
    \A a \in Atoms :
        atom_cna[a] = BCC /\ atom_coord[a] = 14 => defect_property[a] = blk

(* a finished pass with an evaluated BCC atom of coordination 14 and       *)
(* centrosymmetry 9.0 that has four neighbours of coordination 12 and a    *)
(* neighbour labeled Surface                                               *)
C1_Witness ==
    /\ pc = "done"
    /\ \E a \in Atoms :
          /\ atom_cna[a] = BCC /\ atom_coord[a] = 14 /\ atom_csp[a] > 80
          /\ NrCoord(a, 12) >= 4
          /\ \E n \in found[a] : defect_property[n] = srf

(***************************************************************************)
(* C3 as claimed.  An atom with coordination 14, centrosymmetry > 8 and    *)
(* structure type BCC-like is labeled Twin after the pass.                 *)
(***************************************************************************)
C3_BccHighCspIsTwin ==
    pc = "done" =>
        \A a \in Atoms :
            atom_coord[a] = 14 /\ atom_csp[a] > 80 /\ atom_cna[a] = BCC
                => defect_property[a] = twn

(***************************************************************************)
(* C3 as amended.  An evaluated atom with coordination 14 and              *)
(* centrosymmetry > 8 is labeled Bulk when its structure type is BCC-like; *)
(* when it is not BCC-like it is labeled Surface if the Surface rule       *)
(* matches, else Dislocation if at least 4 of its neighbours have          *)
(* coordination 12 or more and not 14 and at most 6 have coordination 14,  *)
(* else Twin.                                                              *)
(***************************************************************************)
C3_HighCspAt14 ==
    \A a \in Atoms :
        Evaluated(a) /\ atom_coord[a] = 14 /\ atom_csp[a] > 80 =>
            defect_property[a] =
                IF atom_cna[a] = BCC THEN blk
                ELSE IF SurfaceRule(a) THEN srf
                ELSE IF /\ Cardinality({n \in NeighborSet(a) :
                                atom_coord[n] >= 12 /\ atom_coord[n] # 14}) >= 4
                        /\ NrCoord(a, 14) <= 6
                     THEN dsl
                ELSE twn

(* a finished pass holding a BCC atom of coordination 14 and centrosymmetry *)
(* 9.0 labeled Bulk and a non-BCC one labeled Twin                          *)
C3_Witness ==
    /\ pc = "done"
    /\ \E a \in Atoms :
          /\ atom_coord[a] = 14 /\ atom_csp[a] > 80 /\ atom_cna[a] = BCC
          /\ defect_property[a] = blk
    /\ \E b \in Atoms :
          /\ atom_coord[b] = 14 /\ atom_csp[b] > 80 /\ atom_cna[b] # BCC
          /\ defect_property[b] = twn

(***************************************************************************)
(* C8.  An evaluated atom whose structure type is not BCC-like is labeled  *)
(* Surface if its coordination is <= 11; if its coordination is >= 12 it   *)
(* is labeled Surface exactly when at least 4 atoms of its filtered        *)
(* neighbour set are surface-qualifying (labeled Surface when it was       *)
(* evaluated, or not BCC-like with coordination <= 11).  An atom whose     *)
(* structure type is BCC-like is never labeled Surface.                    *)
(***************************************************************************)
C8_SurfaceRule ==
    \A a \in Atoms :
        /\ Evaluated(a) /\ atom_cna[a] # BCC /\ atom_coord[a] <= 11
                => defect_property[a] = srf
        /\ Evaluated(a) /\ atom_cna[a] # BCC /\ atom_coord[a] >= 12
                => (defect_property[a] = srf <=> NrSurfaceQualifying(a) >= 4)
        /\ atom_cna[a] = BCC => defect_property[a] # srf

(* a finished pass with a non-BCC atom of coordination >= 12 labeled       *)
(* Surface with fewer than 4 neighbours of coordination <= 11, through     *)
(* neighbours that were themselves labeled Surface by the neighbour rule   *)
C8_Witness ==
    /\ pc = "done"
    /\ \E a \in Atoms :
          /\ atom_cna[a] # BCC /\ atom_coord[a] >= 12 /\ defect_property[a] = srf
          /\ Cardinality({n \in NeighborSet(a) : atom_coord[n] <= 11}) < 4
          /\ \E n \in NeighborSet(a) :
                n < a /\ atom_coord[n] >= 12 /\ defect_property[n] = srf

(***************************************************************************)
(* C2.  The label of an atom does not depend on the labels written for     *)
(* other atoms earlier in the pass: after the pass every atom holds the    *)
(* label the loop body gives it when no other atom has been evaluated yet  *)
(* (all other labels still Bulk), as it would were it evaluated first.     *)
(***************************************************************************)
C2_OrderIndependent ==
    pc = "done" =>
        \A a \in Atoms :
            defect_property[a] = Classify(a, [b \in Atoms |-> blk])

(***************************************************************************)
(* C4 as claimed.  An atom with coordination 13 and centrosymmetry 0.5     *)
(* whose neighbours are exactly 4 atoms with coordination 13 and           *)
(* centrosymmetry 5.0 plus any number of atoms with coordination 14 is     *)
(* labeled Vacancy after the pass.                                         *)
(***************************************************************************)
C4Case(a) ==
    /\ atom_coord[a] = 13 /\ atom_csp[a] = 5
    /\ \A n \in found[a] :
          (atom_coord[n] = 13 /\ atom_csp[n] = 50) \/ atom_coord[n] = 14
    /\ Cardinality({n \in found[a] : atom_coord[n] = 13 /\ atom_csp[n] = 50}) = 4

C4_IsVacancy ==
    pc = "done" => \A a \in Atoms : C4Case(a) => defect_property[a] = vcn

(***************************************************************************)
(* C4 as amended.  Such an atom, once evaluated, is labeled Surface if the *)
(* Surface rule matches it, else Dislocation if fewer than 4 of its        *)
(* neighbours of coordination 14 are not BCC-like (BCC-like ones are       *)
(* filtered out of the neighbour set), else Vacancy.                       *)
(***************************************************************************)
C4_VacancyNeeds14s ==
    \A a \in Atoms :
        Evaluated(a) /\ C4Case(a) =>
            defect_property[a] =
                IF SurfaceRule(a) THEN srf
                ELSE IF NrCoord(a, 14) < 4 THEN dsl
                ELSE vcn

(* a finished pass with such an atom labeled Vacancy *)
C4_Witness ==
    /\ pc = "done"
    /\ \E a \in Atoms : C4Case(a) /\ defect_property[a] = vcn

(***************************************************************************)
(* C5 as claimed.  Every atom that is not perfect-lattice and satisfies    *)
(* both the Dislocation and the Vacancy predicate is labeled Dislocation   *)
(* after the pass.                                                         *)
(***************************************************************************)
C5_DislocationFirst ==
    pc = "done" =>
        \A a \in Atoms :
            ~PerfectLattice(a) /\ DislocationRule(a) /\ VacancyRule(a)
                => defect_property[a] = dsl

(***************************************************************************)
(* C5 as amended.  Every evaluated atom that is not perfect-lattice and    *)
(* satisfies both the Dislocation and the Vacancy predicate is labeled     *)
(* Dislocation, unless the Surface rule matches it: then it is labeled     *)
(* Surface.                                                                *)
(***************************************************************************)
C5_DislocationUnlessSurface ==
    \A a \in Atoms :
        Evaluated(a) /\ ~PerfectLattice(a) /\ DislocationRule(a) /\ VacancyRule(a)
            => defect_property[a] = IF SurfaceRule(a) THEN srf ELSE dsl

(* a finished pass with an atom satisfying both predicates and labeled     *)
(* Dislocation                                                             *)
C5_Witness ==
    /\ pc = "done"
    /\ \E a \in Atoms :
          /\ DislocationRule(a) /\ VacancyRule(a)
          /\ defect_property[a] = dsl

(***************************************************************************)
(* C6.  A snapshot with a malformed descriptor (a negative coordination or *)
(* a structure tag outside 0 .. 4) is rejected before any atom is          *)
(* classified: no iteration of the loop runs and no label is written.      *)
(***************************************************************************)
Malformed == \E a \in Atoms : atom_coord[a] < 0 \/ atom_cna[a] \notin 0 .. 4

C6_FailFast ==
    Malformed =>
        /\ i = 0 /\ pc = "classify"
        /\ \A a \in Atoms : defect_property[a] = blk

(***************************************************************************)
(* C9 as claimed.  An atom with coordination 13 and centrosymmetry > 4.5   *)
(* whose filtered neighbour set holds exactly 5 atoms of coordination 13   *)
(* and exactly 2 of coordination 14 is labeled Twin after the pass.        *)
(***************************************************************************)
C9Case(a) ==
    /\ atom_coord[a] = 13 /\ atom_csp[a] > 45
    /\ NrCoord(a, 13) = 5 /\ NrCoord(a, 14) = 2

C9_IsTwin ==
    pc = "done" => \A a \in Atoms : C9Case(a) => defect_property[a] = twn

(***************************************************************************)
(* C9 as amended.  Such an atom, once evaluated, is labeled Dislocation,   *)
(* or Surface when the Surface rule matches it; it is never labeled Twin.  *)
(***************************************************************************)
C9_IsDislocation ==
    \A a \in Atoms :
        Evaluated(a) /\ C9Case(a) =>
            defect_property[a] = IF SurfaceRule(a) THEN srf ELSE dsl

(* a finished pass with such an atom labeled Dislocation *)
C9_Witness ==
    /\ pc = "done"
    /\ \E a \in Atoms : C9Case(a) /\ defect_property[a] = dsl

(***************************************************************************)
(* C7.  The pass terminates; every atom index then holds exactly one value *)
(* of the closed set {Bulk, Surface, Vacancy, Dislocation, Twin,           *)
(* PlanarFault, Unidentified}, at all times no label lies outside the set, *)
(* and after the pass an atom that is not perfect-lattice and matched none *)
(* of the five predicates when it was evaluated holds Unidentified.        *)
(***************************************************************************)
C7_TotalAndClosed ==
    /\ <>(pc = "done")
    /\ [](/\ DOMAIN defect_property = 0 .. NumAtoms - 1
          /\ \A a \in Atoms : defect_property[a] \in Labels)
    /\ [](pc = "done" =>
            /\ i = NumAtoms
            /\ \A a \in Atoms :
                  /\ ~PerfectLattice(a)
                  /\ ~SurfaceRule(a) /\ ~DislocationRule(a) /\ ~VacancyRule(a)
                  /\ ~TwinRule(a) /\ ~PlanarFaultRule(a)
                  => defect_property[a] = els)

(* a finished pass with an atom that has neighbours and is labeled         *)
(* Unidentified, and three different labels in the array                   *)
C7_Witness ==
    /\ pc = "done"
    /\ \E a \in Atoms : defect_property[a] = els /\ NeighborSet(a) # {}
    /\ Cardinality({defect_property[a] : a \in Atoms}) >= 3

(***************************************************************************)
(* C10.  Atoms are evaluated in ascending index order and the evaluation   *)
(* step of atom i changes only the label of atom i: when atom i is         *)
(* evaluated every atom with index >= i still holds the initial label      *)
(* Bulk, every step leaves the labels of all atoms other than i as they    *)
(* are (so no label changes after its atom's own step), and the index      *)
(* moves on by one with each evaluation.                                   *)
(***************************************************************************)
C10_Frame ==
    [][/\ \A a \in Atoms : a >= i => defect_property[a] = blk
       /\ \A a \in Atoms : a # i => defect_property'[a] = defect_property[a]
       /\ \/ i' = i + 1
          \/ i' = i /\ defect_property' = defect_property]_vars

(* in the middle of a pass: an atom has just been given a label other than *)
(* Bulk, it has a neighbour of lower index with a label other than Bulk,   *)
(* and a neighbour is still to be evaluated                                *)
C10_Witness ==
    /\ pc = "classify"
    /\ i > 0 /\ i < NumAtoms
    /\ defect_property[i - 1] # blk
    /\ \E n \in found[i - 1] : n < i - 1 /\ defect_property[n] # blk
    /\ \E n \in found[i - 1] : n >= i

====
